---- MODULE Spec2Model ----
(***************************************************************************)
(* The two line rewriters of scripts/: lookup_conversion.py (C++ opcode    *)
(* table -> Rust instruction table) and palette_conversion.py (C++ palette *)
(* initialisers -> Rust pixel assignments).  Text is modelled as sequences *)
(* of one-character strings; the regular expressions are run by a          *)
(* backtracking matcher with Python's priorities (leftmost start, greedy   *)
(* or lazy repetition in order).                                           *)
(***************************************************************************)
EXTENDS Integers, Sequences, FiniteSets, TLC

(* ------------------------------------------------------------------ *)
(* Characters and character classes of the re module                  *)
(* ------------------------------------------------------------------ *)

\* \s of the patterns, over the characters of the modelled alphabet.
IsSpace(c) == c \in {" ", "\t", "\n", "\r", "\f"}

\* [0-9] of the palette pattern.
IsDigit(c) == c \in {"0", "1", "2", "3", "4", "5", "6", "7", "8", "9"}

\* Membership of c in a class: "s" is \s, "S" is \S, "d" is [0-9].
InClass(cls, c) ==
    CASE cls = "s" -> IsSpace(c)
      [] cls = "S" -> ~IsSpace(c)
      [] cls = "d" -> IsDigit(c)

(* ------------------------------------------------------------------ *)
(* Pattern nodes                                                       *)
(* ------------------------------------------------------------------ *)

Open == [k |-> "open", c |-> <<>>, cls |-> "", min |-> 0, max |-> 0, inf |-> FALSE, greedy |-> TRUE]
Close == [k |-> "close", c |-> <<>>, cls |-> "", min |-> 0, max |-> 0, inf |-> FALSE, greedy |-> TRUE]
\* cls* (greedy)
Star(cls) == [k |-> "rep", c |-> <<>>, cls |-> cls, min |-> 0, max |-> 0, inf |-> TRUE, greedy |-> TRUE]
\* cls+ (greedy)
Plus(cls) == [k |-> "rep", c |-> <<>>, cls |-> cls, min |-> 1, max |-> 0, inf |-> TRUE, greedy |-> TRUE]
\* cls+? (lazy)
PlusLazy(cls) == [k |-> "rep", c |-> <<>>, cls |-> cls, min |-> 1, max |-> 0, inf |-> TRUE, greedy |-> FALSE]
\* cls{lo,hi} (greedy)
Between(cls, lo, hi) == [k |-> "rep", c |-> <<>>, cls |-> cls, min |-> lo, max |-> hi, inf |-> FALSE, greedy |-> TRUE]

\* A literal run of characters.
Lits(cs) == <<[k |-> "lit", c |-> cs, cls |-> "", min |-> 0, max |-> 0, inf |-> FALSE, greedy |-> TRUE]>>

\* A capture group around the nodes ns.
Group(ns) == <<Open>> \o ns \o <<Close>>

(* ------------------------------------------------------------------ *)
(* The backtracking matcher                                            *)
(* ------------------------------------------------------------------ *)

NoMatch == [ok |-> FALSE, start |-> 0, end |-> 0, caps |-> <<>>]

Min(S) == CHOOSE m \in S : \A n \in S : m <= n

\* Number of consecutive characters of class cls in s from position i,
\* at most cap of them.
RunLen(s, i, cls, cap) ==
    LET stop == Min({j \in i..(Len(s) + 1) : j > Len(s) \/ ~InClass(cls, s[j])})
    IN  IF stop - i > cap THEN cap ELSE stop - i

\* Match pat[p..] against s at position i; st is where the match started,
\* gs the start of the open group, caps the groups closed so far.  The
\* result's end is the position after the match.  A repetition takes the
\* first count, in its order (greedy: most first, lazy: fewest first), with
\* which the rest of the pattern matches.
RECURSIVE MatchHere(_, _, _, _, _, _, _)
MatchHere(pat, p, s, i, st, gs, caps) ==
    IF p > Len(pat) THEN [ok |-> TRUE, start |-> st, end |-> i, caps |-> caps]
    ELSE LET n == pat[p] IN
         CASE n.k = "lit" ->
                IF i + Len(n.c) - 1 <= Len(s) /\ SubSeq(s, i, i + Len(n.c) - 1) = n.c
                THEN MatchHere(pat, p + 1, s, i + Len(n.c), st, gs, caps)
                ELSE NoMatch
           [] n.k = "open" -> MatchHere(pat, p + 1, s, i, st, i, caps)
           [] n.k = "close" ->
                MatchHere(pat, p + 1, s, i, st, gs, Append(caps, SubSeq(s, gs, i - 1)))
           [] n.k = "rep" ->
                LET hi == RunLen(s, i, n.cls, IF n.inf THEN Len(s) ELSE n.max)
                    tried == {[cnt |-> cnt, r |-> MatchHere(pat, p + 1, s, i + cnt, st, gs, caps)] :
                                cnt \in n.min..hi}
                    good == {t \in tried : t.r.ok}
                IN  IF good = {} THEN NoMatch
                    ELSE IF n.greedy
                         THEN (CHOOSE t \in good : \A u \in good : t.cnt >= u.cnt).r
                         ELSE (CHOOSE t \in good : \A u \in good : t.cnt <= u.cnt).r

\* The leftmost match of pat in s starting at position from or later.
Search(pat, s, from) ==
    LET found == {r \in {MatchHere(pat, 1, s, f, f, f, <<>>) : f \in from..(Len(s) + 1)} : r.ok}
    IN  IF found = {} THEN NoMatch
        ELSE CHOOSE r \in found : \A q \in found : r.start <= q.start

\* pattern.findall(line): the group tuples of the non-overlapping matches,
\* left to right.
RECURSIVE FindAllFrom(_, _, _)
FindAllFrom(pat, s, from) ==
    LET r == Search(pat, s, from)
    IN  IF ~r.ok THEN <<>>
        ELSE <<r.caps>> \o FindAllFrom(pat, s, IF r.end > r.start THEN r.end ELSE r.end + 1)

FindAll(pat, s) == FindAllFrom(pat, s, 1)

(* ------------------------------------------------------------------ *)
(* The % operator on a template with %s conversions                    *)
(* ------------------------------------------------------------------ *)

\* The positions of the %s conversions of the template t.
Conversions(t) == {i \in 1..(Len(t) - 1) : t[i] = "%" /\ t[i + 1] = "s"}

\* template % args: each %s, left to right, takes the next argument.
RECURSIVE FormatFrom(_, _, _, _)
FormatFrom(t, i, args, a) ==
    LET next == {j \in Conversions(t) : j >= i}
    IN  IF next = {} THEN SubSeq(t, i, Len(t))
        ELSE SubSeq(t, i, Min(next) - 1) \o args[a] \o FormatFrom(t, Min(next) + 2, args, a + 1)

Format(t, args) == FormatFrom(t, 1, args, 1)

(* ------------------------------------------------------------------ *)
(* The two scripts' constants                                          *)
(* ------------------------------------------------------------------ *)

\* As LookupPattern, with one literal space for each \s* after a comma:
\* {\s*"(\S+?)", &a::(\S+?), &a::(\S+?), (\S+)\s*}
LookupPatternSingleSpace ==
    Lits(<<"{">>) \o <<Star("s")>> \o Lits(<<"\"">>) \o Group(<<PlusLazy("S")>>) \o Lits(<<"\"", ",">>)
    \o Lits(<<" ", "&", "a", ":", ":">>) \o Group(<<PlusLazy("S")>>) \o Lits(<<",">>)
    \o Lits(<<" ", "&", "a", ":", ":">>) \o Group(<<PlusLazy("S")>>) \o Lits(<<",">>)
    \o Lits(<<" ">>) \o Group(<<Plus("S")>>) \o <<Star("s")>> \o Lits(<<"}">>)

\* {\s*"(\S+?)",\s*&a::(\S+?),\s*&a::(\S+?),\s*(\S+)\s*}
LookupPattern ==
    Lits(<<"{">>) \o <<Star("s")>> \o Lits(<<"\"">>) \o Group(<<PlusLazy("S")>>) \o Lits(<<"\"", ",">>)
    \o <<Star("s")>> \o Lits(<<"&", "a", ":", ":">>) \o Group(<<PlusLazy("S")>>) \o Lits(<<",">>)
    \o <<Star("s")>> \o Lits(<<"&", "a", ":", ":">>) \o Group(<<PlusLazy("S")>>) \o Lits(<<",">>)
    \o <<Star("s")>> \o Group(<<Plus("S")>>) \o <<Star("s")>> \o Lits(<<"}">>)

\* palScreen(\[\S+\]) = olc::Pixel\(([0-9]{1,3}), ([0-9]{1,3}), ([0-9]{1,3})\);
PalettePattern ==
    Lits(<<"p", "a", "l", "S", "c", "r", "e", "e", "n">>)
    \o Group(Lits(<<"[">>) \o <<Plus("S")>> \o Lits(<<"]">>))
    \o Lits(<<" ", "=", " ", "o", "l", "c", ":", ":", "P", "i", "x", "e", "l", "(">>)
    \o Group(<<Between("d", 1, 3)>>)
    \o Lits(<<",", " ">>) \o Group(<<Between("d", 1, 3)>>)
    \o Lits(<<",", " ">>) \o Group(<<Between("d", 1, 3)>>)
    \o Lits(<<")", ";">>)

\* As LookupTemplate, naming the type: 'Instruction::new("%s", Olc6502::%s, Olc6502::%s, %s), '
LookupTemplateOlc6502 ==
    <<"I", "n", "s", "t", "r", "u", "c", "t", "i", "o", "n", ":", ":", "n", "e", "w", "(",
      "\"", "%", "s", "\"", ",", " ", "O", "l", "c", "6", "5", "0", "2", ":", ":", "%", "s",
      ",", " ", "O", "l", "c", "6", "5", "0", "2", ":", ":", "%", "s", ",", " ", "%", "s",
      ")", ",", " ">>

\* 'Instruction::new("%s", Self::%s, Self::%s, %s), '
LookupTemplate ==
    <<"I", "n", "s", "t", "r", "u", "c", "t", "i", "o", "n", ":", ":", "n", "e", "w", "(",
      "\"", "%", "s", "\"", ",", " ", "S", "e", "l", "f", ":", ":", "%", "s", ",", " ",
      "S", "e", "l", "f", ":", ":", "%", "s", ",", " ", "%", "s", ")", ",", " ">>

\* As PaletteTemplate, with alpha 0: 'self.palette_screen%s = Rgba([%s, %s, %s, 0]);'
PaletteTemplateAlpha0 ==
    <<"s", "e", "l", "f", ".", "p", "a", "l", "e", "t", "t", "e", "_", "s", "c", "r", "e",
      "e", "n", "%", "s", " ", "=", " ", "R", "g", "b", "a", "(", "[", "%", "s", ",", " ",
      "%", "s", ",", " ", "%", "s", ",", " ", "0", "]", ")", ";">>

\* 'self.palette_screen%s = Rgba([%s, %s, %s, 255]);'
PaletteTemplate ==
    <<"s", "e", "l", "f", ".", "p", "a", "l", "e", "t", "t", "e", "_", "s", "c", "r", "e",
      "e", "n", "%", "s", " ", "=", " ", "R", "g", "b", "a", "(", "[", "%", "s", ",", " ",
      "%", "s", ",", " ", "%", "s", ",", " ", "2", "5", "5", "]", ")", ";">>

\* What each script writes before and after a line's records.
LookupOpen == <<"v", "e", "c", "!", "[">>
LookupClose == <<"]", ",", "\n">>
PaletteOpen == <<>>
PaletteClose == <<"\n">>

\* As LineClose, without the line terminator.
LineCloseNoNewline(sc) == IF sc = "lookup" THEN <<"]", ",">> ELSE <<>>

Scripts == {"lookup", "palette"}
Pattern(sc) == IF sc = "lookup" THEN LookupPattern ELSE PalettePattern
Template(sc) == IF sc = "lookup" THEN LookupTemplate ELSE PaletteTemplate
LineOpen(sc) == IF sc = "lookup" THEN LookupOpen ELSE PaletteOpen
LineClose(sc) == IF sc = "lookup" THEN LookupClose ELSE PaletteClose

\* As Record, with the second and third group exchanged.
RecordSwapped(sc, match) == Format(Template(sc), <<match[1], match[3], match[2], match[4]>>)

\* The record written for one match: template % (match[0], ..., match[3]).
Record(sc, match) == Format(Template(sc), <<match[1], match[2], match[3], match[4]>>)

\* The with block's writes for one input line: the opening text, one record
\* per match in findall's order, the closing text with the line terminator.
RECURSIVE RecordsFrom(_, _, _)
RecordsFrom(sc, ms, i) ==
    IF i > Len(ms) THEN <<>> ELSE Record(sc, ms[i]) \o RecordsFrom(sc, ms, i + 1)

\* As LineOutput, the loop over the matches starting at the second one.
LineOutputSkipsFirst(sc, ms) == LineOpen(sc) \o RecordsFrom(sc, ms, 2) \o LineClose(sc)

\* As LineOutput, writing nothing at all for a line without a match.
LineOutputSkipsEmpty(sc, ms) ==
    IF ms = <<>> THEN <<>> ELSE LineOpen(sc) \o RecordsFrom(sc, ms, 1) \o LineClose(sc)

\* As LineOutput, the closing text never reaching the file.
LineOutputUnclosed(sc, ms) == LineOpen(sc) \o RecordsFrom(sc, ms, 1)

LineOutput(sc, ms) == LineOpen(sc) \o RecordsFrom(sc, ms, 1) \o LineClose(sc)

\* open(path, "w") instead: what is written replaces the file's content.
AppendModeTruncates(old, data) == data

\* open(path, "a"): what is written goes after the file's content.
AppendMode(old, data) == old \o data

\* A file that starts with a header line when it is created.
NewFileWithHeader == <<"/", "/", "\n">>

\* open(path, "a") of a path that does not exist creates an empty file.
NewFile == <<>>

\* inFile.readlines(): the content cut after each "\n"; a last line without
\* terminator is a line too.
ReadLines(content) ==
    LET ends == {i \in 1..Len(content) : content[i] = "\n" \/ i = Len(content)}
        endOf(k) == CHOOSE e \in ends : Cardinality({d \in ends : d <= e}) = k
    IN  [k \in 1..Cardinality(ends) |->
            SubSeq(content, IF k = 1 THEN 1 ELSE endOf(k - 1) + 1, endOf(k))]

(* ------------------------------------------------------------------ *)
(* Input files                                                         *)
(* ------------------------------------------------------------------ *)

\* Bounds of the model.
MaxLines == 2
MaxRuns == 2
MaxOpenFailures == 1

None == <<>>
Sp == <<" ">>

\* One opcode table entry { "n", &a::a, &a::b, c }, with the whitespace
\* sp[1..12] at the twelve places next to its tokens.
LookupEntry(t, sp) ==
    <<"{">> \o sp[1] \o <<"\"">> \o sp[2] \o t[1] \o sp[3] \o <<"\"">> \o sp[4] \o <<",">> \o sp[5]
    \o <<"&", "a", ":", ":">> \o sp[6] \o t[2] \o sp[7] \o <<",">> \o sp[8]
    \o <<"&", "a", ":", ":">> \o sp[9] \o t[3] \o sp[10] \o <<",">> \o sp[11]
    \o t[4] \o sp[12] \o <<"}", ",">>

LookupSlots == 1..12
\* The spacing of the table as written: { "ADC", &a::ADC, &a::IMM, 2 },
LookupCanonical == [k \in LookupSlots |-> IF k \in {1, 5, 8, 11, 12} THEN Sp ELSE None]
LookupCompact == [k \in LookupSlots |-> None]

\* One palette initialiser palScreen[i] = olc::Pixel(r, g, b); with the
\* whitespace sp[1..8] at the eight places next to its tokens.
PaletteEntry(t, sp) ==
    <<"p", "a", "l", "S", "c", "r", "e", "e", "n">> \o sp[1] \o t[1] \o sp[2]
    \o <<" ", "=", " ", "o", "l", "c", ":", ":", "P", "i", "x", "e", "l", "(">>
    \o sp[3] \o t[2] \o sp[4] \o <<",", " ">> \o sp[5] \o t[3] \o sp[6] \o <<",", " ">>
    \o sp[7] \o t[4] \o sp[8] \o <<")", ";">>

PaletteSlots == 1..8
PaletteCanonical == [k \in PaletteSlots |-> None]

ADC == << <<"A", "D", "C">>, <<"A", "D", "C">>, <<"I", "M", "M">>, <<"2">> >>
BRK == << <<"B", "R", "K">>, <<"B", "R", "K">>, <<"I", "M", "P">>, <<"7">> >>
ORA == << <<"O", "R", "A">>, <<"O", "R", "A">>, <<"I", "Z", "X">>, <<"6">> >>
Pal00 == << <<"[", "0", "x", "0", "0", "]">>, <<"8", "4">>, <<"8", "4">>, <<"8", "4">> >>
Pal01 == << <<"[", "0", "x", "0", "1", "]">>, <<"0">>, <<"3", "0">>, <<"1", "1", "6">> >>
Pal02 == << <<"[", "0", "x", "0", "2", "]">>, <<"1", "0", "0", "0">>, <<"0">>, <<"0">> >>

\* { "ADC", &a::ADC, &a::IMM, 2 },
AdcLine == LookupEntry(ADC, LookupCanonical)
\* palScreen[0x00] = olc::Pixel(84, 84, 84);
Pal00Line == PaletteEntry(Pal00, PaletteCanonical)

\* The lines (without terminator) the input files are made of: a line with
\* one entry, a line with two, lines with none.
InputLines(sc) ==
    IF sc = "lookup"
    THEN { AdcLine,
           LookupEntry(BRK, LookupCompact) \o Sp \o LookupEntry(ORA, LookupCanonical),
           <<"}", ";">> }
    ELSE { Pal00Line,
           PaletteEntry(Pal01, PaletteCanonical) \o Sp \o Pal00Line,
           PaletteEntry(Pal02, PaletteCanonical) }

\* The content of a file of the lines ls, each terminated by "\n", the last
\* one only when term.
RECURSIVE FileOf(_, _)
FileOf(ls, term) ==
    IF ls = <<>> THEN <<>>
    ELSE Head(ls) \o (IF Len(ls) > 1 \/ term THEN <<"\n">> ELSE <<>>) \o FileOf(Tail(ls), term)

InputFiles(sc) ==
    { FileOf(ls, term) : ls \in UNION { [1..n -> InputLines(sc)] : n \in 0..MaxLines },
                         term \in BOOLEAN }

\* The whitespace put next to a token.
ExtraSpace == { <<" ">>, <<"\t">>, <<" ", " ">> }

Slots(sc) == IF sc = "lookup" THEN LookupSlots ELSE PaletteSlots
Bases(sc) == IF sc = "lookup" THEN {LookupCanonical, LookupCompact} ELSE {PaletteCanonical}
Entry(sc, sp) == IF sc = "lookup" THEN LookupEntry(ADC, sp) ELSE PaletteEntry(Pal01, sp)

\* A two-line file: an entry, and the same entry with the whitespace w added
\* at slot k.
SpacedFile(sc, base, k, w) ==
    FileOf(<<Entry(sc, base), Entry(sc, [base EXCEPT ![k] = @ \o w])>>, TRUE)

(* ------------------------------------------------------------------ *)
(* State                                                               *)
(* ------------------------------------------------------------------ *)

VARIABLES
    script,        \* which of the two scripts runs
    inFile,        \* content of the input file
    outFile,       \* content of the output file (<<>> when it does not exist)
    outExists,     \* whether the output file exists
    pc,            \* "start", "loop", "with", "done", "input_error", "output_error"
    lines,         \* lines = inFile.readlines()
    idx,           \* number of lines the for loop has finished
    matches,       \* matches = pattern.findall(line)
    seen,          \* the value matches had for each line so far, in order
    runs,          \* runs started so far
    fails,         \* opens that failed so far
    outAtStart,    \* content of the output file when the current run started
    existedAtStart,\* whether it existed then
    slot,          \* 0, or the slot of the second line's added whitespace
    nFresh,        \* completed runs that started on an empty or absent output
    firstFresh,    \* the output of the first of them
    chainLen,      \* completed runs in a row since the output was last empty
    chainOut       \* the output of the first run of the chain

vars == <<script, inFile, outFile, outExists, pc, lines, idx, matches, seen, runs, fails,
          outAtStart, existedAtStart, slot, nFresh, firstFresh, chainLen, chainOut>>

env == <<script, inFile, slot>>
proc == <<lines, idx, matches, seen>>
hist == <<nFresh, firstFresh, chainLen, chainOut>>

InitRest ==
    /\ outFile = <<>> /\ outExists = FALSE
    /\ pc = "start" /\ lines = <<>> /\ idx = 0 /\ matches = <<>> /\ seen = <<>>
    /\ runs = 1 /\ fails = 0
    /\ outAtStart = <<>> /\ existedAtStart = FALSE
    /\ nFresh = 0 /\ firstFresh = <<>> /\ chainLen = 0 /\ chainOut = <<>>

Init ==
    /\ script \in Scripts
    /\ \/ /\ slot = 0
          /\ inFile \in InputFiles(script)
       \/ /\ slot \in Slots(script)
          /\ \E base \in Bases(script), w \in ExtraSpace :
                inFile = SpacedFile(script, base, slot, w)
    /\ InitRest

(* ------------------------------------------------------------------ *)
(* The script, statement by statement                                  *)
(* ------------------------------------------------------------------ *)

\* inFile = open(...); lines = inFile.readlines(); inFile.close()
OpenInput ==
    /\ pc = "start"
    /\ lines' = ReadLines(inFile)
    /\ idx' = 0
    /\ pc' = "loop"
    /\ outAtStart' = outFile /\ existedAtStart' = outExists
    /\ seen' = <<>>
    /\ UNCHANGED <<env, outFile, outExists, matches, runs, fails, hist>>

\* open(...) of the input raises: the script ends there.
OpenInputFails ==
    /\ pc = "start"
    /\ fails < MaxOpenFailures
    /\ fails' = fails + 1
    /\ pc' = "input_error"
    /\ outAtStart' = outFile /\ existedAtStart' = outExists
    /\ chainLen' = 0
    /\ UNCHANGED <<env, outFile, outExists, proc, runs, nFresh, firstFresh, chainOut>>

\* for line in lines: matches = pattern.findall(line); open(out, "a")
OpenOutput ==
    /\ pc = "loop"
    /\ idx < Len(lines)
    /\ matches' = FindAll(Pattern(script), lines[idx + 1])
    /\ seen' = Append(seen, matches')
    /\ outExists' = TRUE
    /\ outFile' = IF outExists THEN outFile ELSE NewFile
    /\ pc' = "with"
    /\ UNCHANGED <<env, lines, idx, runs, fails, outAtStart, existedAtStart, hist>>

\* open(out, "a") raises: the script ends there.
OpenOutputFails ==
    /\ pc = "loop"
    /\ idx < Len(lines)
    /\ fails < MaxOpenFailures
    /\ fails' = fails + 1
    /\ matches' = FindAll(Pattern(script), lines[idx + 1])
    /\ seen' = Append(seen, matches')
    /\ pc' = "output_error"
    /\ chainLen' = 0
    /\ UNCHANGED <<env, outFile, outExists, lines, idx, runs, outAtStart, existedAtStart,
                   nFresh, firstFresh, chainOut>>

\* The body of the with block and its exit: the line's text reaches the file.
WriteLine ==
    /\ pc = "with"
    /\ outFile' = AppendMode(outFile, LineOutput(script, matches))
    /\ idx' = idx + 1
    /\ pc' = "loop"
    /\ UNCHANGED <<env, outExists, lines, matches, seen, runs, fails, outAtStart, existedAtStart, hist>>

\* The loop is exhausted: the script ends.
Finish ==
    /\ pc = "loop"
    /\ idx = Len(lines)
    /\ pc' = "done"
    /\ LET fresh == outAtStart = <<>> IN
       /\ nFresh' = IF fresh THEN nFresh + 1 ELSE nFresh
       /\ firstFresh' = IF fresh /\ nFresh = 0 THEN outFile ELSE firstFresh
       /\ chainLen' = IF fresh THEN 1 ELSE IF chainLen >= 1 THEN chainLen + 1 ELSE 0
       /\ chainOut' = IF fresh THEN outFile ELSE chainOut
    /\ UNCHANGED <<env, outFile, outExists, proc, runs, fails, outAtStart, existedAtStart>>

\* The script is started again: a new process.
Rerun ==
    /\ pc \in {"done", "input_error", "output_error"}
    /\ runs < MaxRuns
    /\ runs' = runs + 1
    /\ pc' = "start"
    /\ lines' = <<>> /\ idx' = 0 /\ matches' = <<>> /\ seen' = <<>>
    /\ UNCHANGED <<env, outFile, outExists, fails, outAtStart, existedAtStart, hist>>

\* Between two runs the output file is emptied.
Truncate ==
    /\ pc = "start"
    /\ outExists /\ outFile # <<>>
    /\ outFile' = <<>>
    /\ chainLen' = 0
    /\ UNCHANGED <<env, outExists, pc, proc, runs, fails, outAtStart, existedAtStart,
                   nFresh, firstFresh, chainOut>>

Next ==
    \/ OpenInput
    \/ OpenInputFails
    \/ OpenOutput
    \/ OpenOutputFails
    \/ WriteLine
    \/ Finish
    \/ Rerun
    \/ Truncate

Spec == Init /\ [][Next]_vars

(* ------------------------------------------------------------------ *)
(* Properties                                                          *)
(* ------------------------------------------------------------------ *)

\* The lines of the output file.
OutLines == ReadLines(outFile)

\* What the current run has added to the output file.
Appended == SubSeq(outFile, Len(outAtStart) + 1, Len(outFile))

\* The current run started on an empty or absent output file.
Fresh == outAtStart = <<>>

IsPrefix(a, b) == Len(a) <= Len(b) /\ SubSeq(b, 1, Len(a)) = a

\* Number of places where the text w occurs in t.
CountOcc(w, t) ==
    Cardinality({i \in 1..(Len(t) - Len(w) + 1) : SubSeq(t, i, i + Len(w) - 1) = w})

RECURSIVE Repeat(_, _)
Repeat(t, m) == IF m = 0 THEN <<>> ELSE t \o Repeat(t, m - 1)

\* The matches the script found in input line i.
MatchesOf(i) == seen[i]

RECURSIVE MatchCount(_)
MatchCount(n) == IF n = 0 THEN 0 ELSE Len(MatchesOf(n)) + MatchCount(n - 1)

\* The text every record of a script starts with.
RecordHead(sc) ==
    IF sc = "lookup"
    THEN <<"I", "n", "s", "t", "r", "u", "c", "t", "i", "o", "n", ":", ":", "n", "e", "w", "(">>
    ELSE <<"s", "e", "l", "f", ".", "p", "a", "l", "e", "t", "t", "e", "_", "s", "c", "r", "e",
           "e", "n">>

\* The record of the groups g, written out: the groups in the order g1, g2,
\* g3, g4 between the template's fixed texts.
ExpectedRecord(sc, g) ==
    IF sc = "lookup"
    THEN <<"I", "n", "s", "t", "r", "u", "c", "t", "i", "o", "n", ":", ":", "n", "e", "w", "(", "\"">>
         \o g[1] \o <<"\"", ",", " ", "S", "e", "l", "f", ":", ":">>
         \o g[2] \o <<",", " ", "S", "e", "l", "f", ":", ":">>
         \o g[3] \o <<",", " ">> \o g[4] \o <<")", ",", " ">>
    ELSE <<"s", "e", "l", "f", ".", "p", "a", "l", "e", "t", "t", "e", "_", "s", "c", "r", "e",
           "e", "n">>
         \o g[1] \o <<" ", "=", " ", "R", "g", "b", "a", "(", "[">>
         \o g[2] \o <<",", " ">> \o g[3] \o <<",", " ">> \o g[4]
         \o <<",", " ", "2", "5", "5", "]", ")", ";">>

RECURSIVE ExpectedRecords(_, _)
ExpectedRecords(sc, gs) ==
    IF gs = <<>> THEN <<>> ELSE ExpectedRecord(sc, Head(gs)) \o ExpectedRecords(sc, Tail(gs))

\* The output line of an input line with the matches gs, written out.
ExpectedLine(sc, gs) ==
    IF sc = "lookup"
    THEN <<"v", "e", "c", "!", "[">> \o ExpectedRecords(sc, gs) \o <<"]", ",", "\n">>
    ELSE ExpectedRecords(sc, gs) \o <<"\n">>

\* The output of the first n input lines, written out.
RECURSIVE ExpectedOutput(_)
ExpectedOutput(n) ==
    IF n = 0 THEN <<>> ELSE ExpectedOutput(n - 1) \o ExpectedLine(script, MatchesOf(n))

\* Input line i is the text t, with or without its terminator.
LineIs(i, t) == lines[i] = t \/ lines[i] = t \o <<"\n">>

\* The text t holds the records of the matches gs, one after the other, and
\* no other record.
HoldsExactly(t, sc, gs) ==
    /\ CountOcc(RecordHead(sc), t) = Len(gs)
    /\ CountOcc(ExpectedRecords(sc, gs), t) >= 1

(* C1: in both scripts, after k input lines have been processed the number
   of records the run has appended to the output file equals the number of
   matches found in those k lines (so also at the end of the run, and a
   line without a match adds no record). *)
C1_RecordCount ==
    pc \in {"loop", "with", "done", "output_error"} =>
        CountOcc(RecordHead(script), Appended) = MatchCount(idx)

C1_Witness ==
    /\ pc = "done" /\ Len(lines) = 2
    /\ Len(MatchesOf(1)) = 2 /\ Len(MatchesOf(2)) = 0
    /\ CountOcc(RecordHead(script), Appended) = 2

(* C2: a run that starts on an empty or absent output file and reads n
   lines leaves exactly n output lines, each ending in a line terminator,
   the i-th holding exactly the records of the matches of input line i in
   match order. *)
C2_LinePerLine ==
    (pc = "done" /\ Fresh) =>
        /\ Len(OutLines) = Len(lines)
        /\ \A i \in 1..Len(lines) :
              /\ i <= Len(OutLines)
              /\ OutLines[i][Len(OutLines[i])] = "\n"
              /\ HoldsExactly(OutLines[i], script, MatchesOf(i))

C2_Witness ==
    /\ pc = "done" /\ Fresh /\ Len(lines) = 2 /\ Len(OutLines) = 2
    /\ Len(MatchesOf(1)) = 1 /\ Len(MatchesOf(2)) = 2

(* C3: for every input line the pattern matches exactly once, with groups
   (g1, g2, g3, g4), the line's output holds exactly one record, and it is
   the template with g1, g2, g3, g4 in this order. *)
C3_OneMatchOneRecord ==
    (pc = "done" /\ Fresh) =>
        \A i \in 1..Len(lines) :
            Len(MatchesOf(i)) = 1 =>
                /\ i <= Len(OutLines)
                /\ CountOcc(RecordHead(script), OutLines[i]) = 1
                /\ CountOcc(ExpectedRecord(script, MatchesOf(i)[1]), OutLines[i]) = 1

C3_Witness ==
    /\ pc = "done" /\ Fresh
    /\ \E i \in 1..Len(lines) :
          /\ Len(MatchesOf(i)) = 1
          /\ MatchesOf(i)[1][2] # MatchesOf(i)[1][3]
          /\ i <= Len(OutLines)
          /\ CountOcc(ExpectedRecord(script, MatchesOf(i)[1]), OutLines[i]) = 1

\* Instruction::new("ADC", Olc6502::ADC, Olc6502::IMM, 2),
AdcRecordOlc6502 ==
    <<"I", "n", "s", "t", "r", "u", "c", "t", "i", "o", "n", ":", ":", "n", "e", "w", "(",
      "\"", "A", "D", "C", "\"", ",", " ", "O", "l", "c", "6", "5", "0", "2", ":", ":",
      "A", "D", "C", ",", " ", "O", "l", "c", "6", "5", "0", "2", ":", ":", "I", "M", "M",
      ",", " ", "2", ")", ",", " ">>

\* vec![Instruction::new("ADC", Self::ADC, Self::IMM, 2), ],
AdcOutputLine ==
    <<"v", "e", "c", "!", "[", "I", "n", "s", "t", "r", "u", "c", "t", "i", "o", "n", ":",
      ":", "n", "e", "w", "(", "\"", "A", "D", "C", "\"", ",", " ", "S", "e", "l", "f", ":",
      ":", "A", "D", "C", ",", " ", "S", "e", "l", "f", ":", ":", "I", "M", "M", ",", " ",
      "2", ")", ",", " ", "]", ",", "\n">>

(* C4, as stated: for the input line { "ADC", &a::ADC, &a::IMM, 2 }, the
   opcode rewriter captures (ADC, ADC, IMM, 2) and its output for the line
   is Instruction::new("ADC", Olc6502::ADC, Olc6502::IMM, 2), -- read here
   in the widest sense: the line's output holds that text. *)
C4_AsStated ==
    (pc = "done" /\ Fresh /\ script = "lookup") =>
        \A i \in 1..Len(lines) :
            LineIs(i, AdcLine) =>
                /\ MatchesOf(i) = <<ADC>>
                /\ i <= Len(OutLines)
                /\ CountOcc(AdcRecordOlc6502, OutLines[i]) >= 1

(* C4, amended: for the input line { "ADC", &a::ADC, &a::IMM, 2 }, the
   opcode rewriter captures (ADC, ADC, IMM, 2) and its output for the line
   is, byte for byte, vec![Instruction::new("ADC", Self::ADC, Self::IMM, 2), ],
   and a line terminator. *)
C4_AdcLine ==
    (pc = "done" /\ Fresh /\ script = "lookup") =>
        \A i \in 1..Len(lines) :
            LineIs(i, AdcLine) =>
                /\ MatchesOf(i) = <<ADC>>
                /\ i <= Len(OutLines)
                /\ OutLines[i] = AdcOutputLine

C4_Witness ==
    /\ pc = "done" /\ Fresh /\ script = "lookup"
    /\ \E i \in 1..Len(lines) : LineIs(i, AdcLine) /\ i <= Len(OutLines) /\ OutLines[i] = AdcOutputLine

(* C5, as stated: for every input line without a match, the output of
   either script has at the line's position an empty line: a line
   terminator and nothing else. *)
C5_AsStated ==
    (pc = "done" /\ Fresh) =>
        \A i \in 1..Len(lines) :
            MatchesOf(i) = <<>> => (i <= Len(OutLines) /\ OutLines[i] = <<"\n">>)

(* C5, amended: for every input line without a match, the output has at the
   line's position a line without a record: the empty line in
   palette_conversion, the line vec![], in lookup_conversion. *)
C5_NoMatchLine ==
    (pc = "done" /\ Fresh) =>
        \A i \in 1..Len(lines) :
            MatchesOf(i) = <<>> =>
                /\ i <= Len(OutLines)
                /\ OutLines[i] = IF script = "palette" THEN <<"\n">>
                                 ELSE <<"v", "e", "c", "!", "[", "]", ",", "\n">>

C5_Witness ==
    /\ pc = "done" /\ Fresh /\ Len(lines) = 2 /\ Len(OutLines) = 2
    /\ MatchesOf(1) = <<>> /\ MatchesOf(2) # <<>>
    /\ script = "lookup" /\ OutLines[1] = <<"v", "e", "c", "!", "[", "]", ",", "\n">>

\* The places where the opcode pattern has \s*: after the brace, after each
\* of the three commas, before the closing brace.
LookupFreeSlots == {1, 5, 8, 11, 12}

\* The second line of a two-line file with added whitespace matches and its
\* output is that of the first line.
SameAsUnspaced ==
    /\ Len(OutLines) = 2 /\ Len(lines) = 2
    /\ MatchesOf(2) # <<>>
    /\ OutLines[2] = OutLines[1]

(* C6, as stated: a line that differs from a matching line only by extra
   whitespace next to a captured token still matches and gives the output
   of the line without it, at every such place of both patterns. *)
C6_AsStated == (pc = "done" /\ Fresh /\ slot # 0) => SameAsUnspaced

(* C6, amended: a line that differs from a matching line only by extra
   whitespace next to a captured token still matches and gives the same
   output when the whitespace is where the opcode pattern has \s* (after
   the opening brace, after a comma, before the closing brace); at the
   other places of an opcode entry (inside the quotes, before a comma,
   after &a::) and at every place of a palette initialiser the line gives
   no record. *)
C6_WhitespaceWhereAllowed ==
    (pc = "done" /\ Fresh /\ slot # 0) =>
        /\ Len(lines) = 2 /\ Len(OutLines) = 2
        /\ Len(MatchesOf(1)) = 1
        /\ IF script = "lookup" /\ slot \in LookupFreeSlots
           THEN SameAsUnspaced
           ELSE MatchesOf(2) = <<>> /\ OutLines[2] # OutLines[1]

C6_Witness ==
    /\ pc = "done" /\ Fresh /\ script = "lookup" /\ slot = 5
    /\ SameAsUnspaced
    /\ Len(lines[2]) = Len(lines[1]) + 2

(* C7: every run that starts on an empty or absent output file and reads
   the same input ends with the same output file, byte for byte, whatever
   ran before it. *)
C7_SameOutputEachFreshRun == (pc = "done" /\ Fresh) => outFile = firstFresh

C7_Witness ==
    /\ pc = "done" /\ Fresh /\ nFresh = 2 /\ existedAtStart
    /\ outFile # <<>> /\ outFile = firstFresh

\* self.palette_screen[0x00] = Rgba([84, 84, 84, 255]);
Pal00OutputLine ==
    <<"s", "e", "l", "f", ".", "p", "a", "l", "e", "t", "t", "e", "_", "s", "c", "r", "e",
      "e", "n", "[", "0", "x", "0", "0", "]", " ", "=", " ", "R", "g", "b", "a", "(", "[",
      "8", "4", ",", " ", "8", "4", ",", " ", "8", "4", ",", " ", "2", "5", "5", "]", ")",
      ";", "\n">>

(* C8: for the input line palScreen[0x00] = olc::Pixel(84, 84, 84); the
   palette rewriter writes self.palette_screen[0x00] = Rgba([84, 84, 84, 255]);
   and a line terminator; in general each match (idx, r, g, b) gives
   self.palette_screen idx = Rgba([r, g, b, 255]); with the alpha always
   255. *)
C8_PaletteRecord ==
    (pc = "done" /\ Fresh /\ script = "palette") =>
        \A i \in 1..Len(lines) :
            /\ i <= Len(OutLines)
            /\ OutLines[i] = ExpectedLine("palette", MatchesOf(i))
            /\ LineIs(i, Pal00Line) => OutLines[i] = Pal00OutputLine

C8_Witness ==
    /\ pc = "done" /\ Fresh /\ script = "palette"
    /\ \E i \in 1..Len(lines) :
          LineIs(i, Pal00Line) /\ i <= Len(OutLines) /\ OutLines[i] = Pal00OutputLine

\* A statement of the script can run.
Running == ENABLED (OpenInput \/ OpenInputFails \/ OpenOutput \/ OpenOutputFails
                    \/ WriteLine \/ Finish)

(* C9: a failed open ends the run there.  When the input cannot be opened
   the output file is neither created nor changed; when the output cannot
   be opened for input line k, no further line is processed and the output
   file is its content before the run followed by the complete output of
   lines 1..k-1. *)
C9_OpenFailureIsFatal ==
    /\ pc = "input_error" =>
          /\ outFile = outAtStart /\ outExists = existedAtStart
          /\ ~Running
    /\ pc = "output_error" =>
          /\ idx < Len(lines)
          /\ outFile = outAtStart \o ExpectedOutput(idx)
          /\ ~Running

C9_Witness ==
    /\ pc = "output_error" /\ idx = 1 /\ outAtStart # <<>>
    /\ MatchesOf(1) # <<>>
    /\ outFile = outAtStart \o ExpectedOutput(1)

(* C10: neither script truncates or rewrites the output: during a run the
   file's content before the run stays a prefix of its content and each
   step leaves the old content a prefix of the new; so m runs in a row on
   the same input, the first on an empty file, leave m copies of the
   output of one run. *)
C10_AppendOnly ==
    /\ [](pc # "start" => IsPrefix(outAtStart, outFile))
    /\ []((pc = "done" /\ chainLen >= 1) => outFile = Repeat(chainOut, chainLen))
    /\ [][(pc # "start") => IsPrefix(outFile, outFile')]_vars

C10_Witness ==
    /\ pc = "done" /\ chainLen = MaxRuns /\ chainOut # <<>>
    /\ outFile = Repeat(chainOut, chainLen)

====
